---- MODULE Spec2Model ----
(***************************************************************************)
(* License enforcement and feature gating of your_project:                 *)
(* license_check.py (verifier, enforcer with the process-wide cache, the   *)
(* two gating decorators) and core.py (the gated features).                *)
(*                                                                         *)
(* Python's Optional[T] is a sequence of length at most one: None is <<>>  *)
(* and a value v is <<v>>.  Strings that the code trims are sequences of   *)
(* characters; messages are sequences of their parts.                      *)
(***************************************************************************)
EXTENDS Integers, Sequences, FiniteSets, TLC

VARIABLES DISABLE_LICENSE_CHECK, LICENSE_SERVER_URL, environ,
          cached_license, calls, netCalls, statusReturns, firstOutcome, last,
          main_pc, threads

\* DISABLE_LICENSE_CHECK  license_check.py:31  the dev-mode override
\* LICENSE_SERVER_URL     license_check.py:22  the configured base URL
\* environ                license_check.py:60  the license key variable of the
\*                        process environment (unset, or its value)
\* cached_license         license_check.py:54  _cached_license
\* calls                  number of calls of the public functions made so far
\* netCalls               number of requests.get calls made so far (line 86)
\* statusReturns          number of statuses the verifier returned (line 124)
\* firstOutcome           the outcome of the enforce_license call that
\*                        populated the cache (lines 126-131)
\* last                   the latest call: what was called and what came of it
\* main_pc                _main_.py:13-36      where main() stands
\* threads                license_check.py:109-148  the threads calling
\*                        enforce_license / get_license_status at once: the
\*                        line each stands at and its local variables
vars == <<DISABLE_LICENSE_CHECK, LICENSE_SERVER_URL, environ,
          cached_license, calls, netCalls, statusReturns, firstOutcome, last,
          main_pc, threads>>

config == <<DISABLE_LICENSE_CHECK, LICENSE_SERVER_URL, environ>>

\* ---- bounds ------------------------------------------------------------
\* number of top-level calls (enforce_license, get_license_status, gated
\* calls) made in one process
MaxCalls == 3

\* number of threads calling into the module at once
NumThreads == 2

\* ---- Optional -----------------------------------------------------------
None == <<>>

Some(v) == <<v>>

IsNone(o) == o = <<>>

Val(o) == o[1]

\* ---- configuration ------------------------------------------------------
\* values the DISABLE_LICENSE_CHECK environment variable is given (<<>>: unset)
RawFlags == {None, Some("1"), Some("TRUE"), Some("Yes"), Some("0"), Some("false")}

Lower(s) ==
  CASE s = "TRUE" -> "true"
    [] s = "Yes" -> "yes"
    [] OTHER -> s

ParseDisableFlag(raw) ==
  Lower(IF IsNone(raw) THEN "" ELSE Val(raw)) \in {"1", "true", "yes"}

\* LICENSE_SERVER_URL after os.getenv: empty, a base, a base with a trailing "/"
ServerUrls == {<<>>, <<"h">>, <<"h", "/">>}

RECURSIVE RStripSlash(_)
RStripSlash(u) ==
  IF u # <<>> /\ u[Len(u)] = "/" THEN RStripSlash(SubSeq(u, 1, Len(u) - 1)) ELSE u

VerifyUrl(base) == RStripSlash(base) \o <<"/verify">>

ENV_LICENSE_KEY == "MYAPP_LICENSE_KEY"

\* values of the license key variable in the environment (<<>>: unset)
EnvKeys == {None, Some(<<>>), Some(<<" ">>), Some(<<"k">>),
            Some(<<" ", "k">>), Some(<<"k", " ">>)}

RECURSIVE LStrip(_)
LStrip(s) == IF s # <<>> /\ s[1] = " " THEN LStrip(Tail(s)) ELSE s

RECURSIVE RStrip(_)
RStrip(s) ==
  IF s # <<>> /\ s[Len(s)] = " " THEN RStrip(SubSeq(s, 1, Len(s) - 1)) ELSE s

NoStrip(s) == s

Strip(s) == RStrip(LStrip(s))

Getenv(env, default) == IF IsNone(env) THEN default ELSE Val(env)

\* ---- outcomes of a call -------------------------------------------------
LVE == "LicenseValidationError"

NoStatus == None

Return(status) ==
  [kind |-> "return", exc |-> "", msg |-> <<>>, status |-> Some(status), result |-> None]

ReturnValue(v) ==
  [kind |-> "return", exc |-> "", msg |-> <<>>, status |-> None, result |-> Some(v)]

Raise(exc, msg) ==
  [kind |-> "raise", exc |-> exc, msg |-> msg, status |-> None, result |-> None]

NoOutcome ==
  [kind |-> "none", exc |-> "", msg |-> <<>>, status |-> None, result |-> None]

\* ---- data model ---------------------------------------------------------
LicenseStatus(valid, reason, license_id, plan, seats, customer_name) ==
  [valid |-> valid, reason |-> reason, license_id |-> license_id, plan |-> plan,
   seats |-> seats, customer_name |-> customer_name]

\* ---- _get_license_key_from_env -----------------------------------------
get_license_key_from_env(env) ==
  LET key == Strip(Getenv(env, <<>>))
  IN  IF key = <<>>
      THEN [ok |-> FALSE, key |-> key,
            raised |-> Raise(LVE, <<"No license key found. Set environment variable ",
                                     ENV_LICENSE_KEY, ".">>)]
      ELSE [ok |-> TRUE, key |-> key, raised |-> NoOutcome]

\* ---- the license server's answers ---------------------------------------
\* a JSON value of the response body
JNull == [t |-> "null", b |-> FALSE, s |-> ""]

JBool(b) == [t |-> "bool", b |-> b, s |-> ""]

JStr(s) == [t |-> "str", b |-> FALSE, s |-> s]

\* Python's bool(v)
PyBool(v) ==
  CASE v.t = "null" -> FALSE
    [] v.t = "bool" -> v.b
    [] OTHER -> v.s # ""

\* Python's str(v)
PyStr(v) ==
  CASE v.t = "null" -> "None"
    [] v.t = "bool" -> (IF v.b THEN "True" ELSE "False")
    [] OTHER -> v.s

\* dict.get(name, default) on a field that is absent (<<>>) or present (<<v>>)
DictGet(field, default) == IF IsNone(field) THEN default ELSE Val(field)

\* dict.get(name) of an optional string field: absent and null are both None
DictGetOpt(field) ==
  IF IsNone(field) \/ Val(field).t = "null" THEN None ELSE Some(Val(field).s)

ValidFields == {None, Some(JBool(TRUE)), Some(JBool(FALSE)), Some(JStr("no"))}

ReasonFields == {None, Some(JStr("expired"))}

PlanFields == {None, Some(JNull), Some(JStr("")), Some(JStr("pro")),
               Some(JStr("enterprise"))}

NoFields == [valid |-> None, reason |-> None, plan |-> None]

\* resp.json(): a JSON object, a JSON value that is no object, or no JSON at all
Bodies ==
  {[form |-> f, fields |-> NoFields] : f \in {"notjson", "notdict"}}
  \cup {[form |-> "dict", fields |-> [valid |-> v, reason |-> r, plan |-> p]] :
          v \in ValidFields, r \in ReasonFields, p \in PlanFields}

EmptyBody == [form |-> "notjson", fields |-> NoFields]

\* requests.get: a RequestException, or a response with a status code and a body
Responses ==
  {[transport |-> "error", status_code |-> 0, body |-> EmptyBody]}
  \cup {[transport |-> "ok", status_code |-> c, body |-> EmptyBody] : c \in {404, 500}}
  \cup {[transport |-> "ok", status_code |-> 200, body |-> b] : b \in Bodies}

NoResponse == None

NoRequest == None

\* requests' Response.ok
RespOk(resp) == resp.status_code < 400

\* ---- _verify_license_online ---------------------------------------------
DevStatus ==
  LicenseStatus(TRUE, "License check disabled via DISABLE_LICENSE_CHECK",
                Some("DEV-MODE"), Some("dev"), Some(1), Some("Development Mode"))

NotFoundStatus == LicenseStatus(FALSE, "License not found", None, None, None, None)

\* lines 98-106: resp.json() and the status built from it
StatusFromBody(body) ==
  CASE body.form = "notjson" -> Raise("JSONDecodeError", <<"Expecting value">>)
    [] body.form = "notdict" -> Raise("AttributeError", <<"no attribute 'get'">>)
    [] OTHER ->
         Return(LicenseStatus(PyBool(DictGet(body.fields.valid, JBool(FALSE))),
                              PyStr(DictGet(body.fields.reason, JStr("Unknown"))),
                              None,
                              DictGetOpt(body.fields.plan),
                              None,
                              None))

ServerError(resp) ==
  Raise(LVE, <<"License server error (", ToString(resp.status_code), "): ">>)

\* a verifier that treats a 404 like every other non-success response
HandleResponseNo404(resp) ==
  IF ~RespOk(resp) THEN ServerError(resp) ELSE StatusFromBody(resp.body)

\* a verifier that turns a server error into a negative result
HandleResponseErrorAsInvalid(resp) ==
  IF ~RespOk(resp) THEN Return(NotFoundStatus) ELSE StatusFromBody(resp.body)

\* lines 90-106: what the verifier makes of a response it received
HandleResponse(resp) ==
  IF resp.status_code = 404 THEN Return(NotFoundStatus)
  ELSE IF ~RespOk(resp) THEN ServerError(resp)
  ELSE StatusFromBody(resp.body)

\* the result of the verifier: its outcome, and the request it sent, if any
Verified(outcome, request, response) ==
  [outcome |-> outcome, request |-> request, response |-> response]

verify_license_online(disabled, base, key, resp) ==
  IF disabled THEN Verified(Return(DevStatus), NoRequest, NoResponse)
  ELSE IF base = <<>>
  THEN Verified(Raise(LVE, <<"LICENSE_SERVER_URL is not configured.">>),
                NoRequest, NoResponse)
  ELSE LET request == Some([url |-> VerifyUrl(base), key |-> key])
       IN  IF resp.transport = "error"
           THEN Verified(Raise(LVE, <<"Could not contact license server: ">>),
                         request, Some(resp))
           ELSE Verified(HandleResponse(resp), request, Some(resp))

\* whether a call with an empty cache reaches requests.get
ReachesNetwork(disabled, base, env) ==
  get_license_key_from_env(env).ok /\ ~disabled /\ base # <<>>

\* ---- enforce_license ----------------------------------------------------
InvalidLicense(status) == Raise(LVE, <<"Invalid license: ", status.reason>>)

\* a cached branch that hands out the cached status without looking at valid
ServeFromCacheUnchecked(cache) == Return(Val(cache))

\* lines 117-121: the cache is populated
ServeFromCache(cache) ==
  IF ~Val(cache).valid THEN InvalidLicense(Val(cache)) ELSE Return(Val(cache))

\* a store that keeps only valid statuses
CacheOnlyValid(status) == IF status.valid THEN Some(status) ELSE None

\* a store that is lost (an assignment to a local _cached_license)
CacheNever(status) == None

\* line 126: _cached_license = status
CacheAfterVerify(status) == Some(status)

\* a tail that returns the stored status without looking at valid
AfterStoreUnchecked(status) == Return(status)

\* lines 128-131
AfterStore(status) ==
  IF ~status.valid THEN InvalidLicense(status) ELSE Return(status)

\* the result of a call of the enforcer: the cache slot after it, its outcome,
\* the request the verifier sent and the response it got (if any), and
\* whether the verifier returned a status
Enforced(cache, outcome, request, response, verified) ==
  [cache |-> cache, outcome |-> outcome, request |-> request,
   response |-> response, verified |-> verified]

\* lines 123-131: the cache is empty
VerifyAndStore(cache, disabled, base, env, resp) ==
  LET k == get_license_key_from_env(env)
      v == verify_license_online(disabled, base, k.key, resp)
  IN  IF ~k.ok THEN Enforced(cache, k.raised, NoRequest, NoResponse, FALSE)
      ELSE IF v.outcome.kind = "raise"
      THEN Enforced(cache, v.outcome, v.request, v.response, FALSE)
      ELSE Enforced(CacheAfterVerify(Val(v.outcome.status)),
                    AfterStore(Val(v.outcome.status)), v.request, v.response, TRUE)

\* an enforcer that drops a cached invalid status, so that the next call
\* verifies again
enforce_license_forget_invalid(cache, disabled, base, env, resp) ==
  IF ~IsNone(cache)
  THEN Enforced(IF Val(cache).valid THEN cache ELSE None, ServeFromCache(cache),
                NoRequest, NoResponse, FALSE)
  ELSE VerifyAndStore(cache, disabled, base, env, resp)

enforce_license(cache, disabled, base, env, resp) ==
  IF ~IsNone(cache)
  THEN Enforced(cache, ServeFromCache(cache), NoRequest, NoResponse, FALSE)
  ELSE VerifyAndStore(cache, disabled, base, env, resp)

\* ---- get_license_status -------------------------------------------------
get_license_status(cache, disabled, base, env, resp) ==
  IF IsNone(cache) THEN enforce_license(cache, disabled, base, env, resp)
  ELSE IF ~Val(cache).valid
  THEN Enforced(cache, InvalidLicense(Val(cache)), NoRequest, NoResponse, FALSE)
  ELSE Enforced(cache, Return(Val(cache)), NoRequest, NoResponse, FALSE)

\* ---- the wrapped operation (core.py) ------------------------------------
\* arguments the gated operation is called with
ArgsSet == {<<3, 4>>, <<2, 5>>}

\* core.pro_feature's body
pro_feature_body(args) ==
  <<"[PRO] Computed product of ", ToString(args[1]), " * ", ToString(args[2]),
    " = ", ToString(args[1] * args[2])>>

\* ---- require_license ----------------------------------------------------
\* plan arguments of require_license
GatePlans == {None, Some(""), Some("pro"), Some("enterprise")}

\* a gate that tests the required plan for truth instead of for None
RequireLicenseGateTruthy(plan, status) ==
  IF ~IsNone(plan) /\ Val(plan) # ""
  THEN IF IsNone(status.plan)
       THEN Raise("PermissionError",
                  <<"This feature requires plan '", Val(plan),
                    "', but your license has no plan assigned.">>)
       ELSE IF Val(status.plan) # Val(plan)
       THEN Raise("PermissionError",
                  <<"This feature requires plan '", Val(plan),
                    "', but your license plan is '", Val(status.plan), "'.">>)
       ELSE NoOutcome
  ELSE NoOutcome

\* lines 173-181: the plan check; NoOutcome when the call may proceed
RequireLicenseGate(plan, status) ==
  IF ~IsNone(plan)
  THEN IF IsNone(status.plan)
       THEN Raise("PermissionError",
                  <<"This feature requires plan '", Val(plan),
                    "', but your license has no plan assigned.">>)
       ELSE IF Val(status.plan) # Val(plan)
       THEN Raise("PermissionError",
                  <<"This feature requires plan '", Val(plan),
                    "', but your license plan is '", Val(status.plan), "'.">>)
       ELSE NoOutcome
  ELSE NoOutcome

\* the result of a gated call: the enforcer's result, the wrapper's outcome
\* and the arguments the wrapped operation was invoked with (None: not invoked)
Gated(lic, outcome, invoked) == [lic |-> lic, outcome |-> outcome, invoked |-> invoked]

\* a wrapper that caches its rejection the way an invalid license is cached
require_license_wrapper_caching_rejection(plan, args, cache, disabled, base, env, resp) ==
  LET lic == get_license_status(cache, disabled, base, env, resp)
  IN  IF lic.outcome.kind = "raise" THEN Gated(lic, lic.outcome, None)
      ELSE LET gate == RequireLicenseGate(plan, Val(lic.outcome.status))
           IN  IF gate.kind = "raise"
               THEN Gated([lic EXCEPT !.cache =
                             Some([Val(lic.outcome.status) EXCEPT !.valid = FALSE])],
                          gate, None)
               ELSE Gated(lic, ReturnValue(pro_feature_body(args)), Some(args))

\* lines 170-183
require_license_wrapper(plan, args, cache, disabled, base, env, resp) ==
  LET lic == get_license_status(cache, disabled, base, env, resp)
  IN  IF lic.outcome.kind = "raise" THEN Gated(lic, lic.outcome, None)
      ELSE LET gate == RequireLicenseGate(plan, Val(lic.outcome.status))
           IN  IF gate.kind = "raise" THEN Gated(lic, gate, None)
               ELSE Gated(lic, ReturnValue(pro_feature_body(args)), Some(args))

\* ---- require_license_any ------------------------------------------------
\* plans arguments of require_license_any
GatePlanLists == {<<>>, <<"">>, <<"pro">>, <<"pro", "enterprise">>}

InList(x, list) == \E i \in 1..Len(list) : list[i] = x

\* Python's truth value of an Optional[str]
Truthy(opt) == ~IsNone(opt) /\ Val(opt) # ""

\* a gate that reads an empty list of plans as "no restriction"
RequireLicenseAnyGateEmptyOpen(plans, status) ==
  IF plans = <<>> THEN NoOutcome
  ELSE IF ~Truthy(status.plan)
  THEN Raise("PermissionError",
             <<"This feature requires one of plans ", plans,
               ", but your license has no plan assigned.">>)
  ELSE IF ~InList(Val(status.plan), plans)
  THEN Raise("PermissionError",
             <<"This feature requires one of plans ", plans,
               ", but your license plan is '", Val(status.plan), "'.">>)
  ELSE NoOutcome

\* lines 207-214: the plan check; NoOutcome when the call may proceed
RequireLicenseAnyGate(plans, status) ==
  IF ~Truthy(status.plan)
  THEN Raise("PermissionError",
             <<"This feature requires one of plans ", plans,
               ", but your license has no plan assigned.">>)
  ELSE IF ~InList(Val(status.plan), plans)
  THEN Raise("PermissionError",
             <<"This feature requires one of plans ", plans,
               ", but your license plan is '", Val(status.plan), "'.">>)
  ELSE NoOutcome

\* lines 204-216
require_license_any_wrapper(plans, args, cache, disabled, base, env, resp) ==
  LET lic == get_license_status(cache, disabled, base, env, resp)
  IN  IF lic.outcome.kind = "raise" THEN Gated(lic, lic.outcome, None)
      ELSE LET gate == RequireLicenseAnyGate(plans, Val(lic.outcome.status))
           IN  IF gate.kind = "raise" THEN Gated(lic, gate, None)
               ELSE Gated(lic, ReturnValue(pro_feature_body(args)), Some(args))

\* ---- the process --------------------------------------------------------
\* the record of the latest call: the operation, its arguments, the enforcer's
\* outcome inside it, its own outcome, the verifier's request and response,
\* and the arguments the wrapped operation was invoked with
Called(op, plan, plans, args, lic, outcome, invoked) ==
  [op |-> op, plan |-> plan, plans |-> plans, args |-> args,
   license |-> lic.outcome, outcome |-> outcome,
   request |-> lic.request, response |-> lic.response, invoked |-> invoked]

NoCall ==
  [op |-> "none", plan |-> None, plans |-> <<>>, args |-> None,
   license |-> NoOutcome, outcome |-> NoOutcome,
   request |-> NoRequest, response |-> NoResponse, invoked |-> None]

Threads == 1..NumThreads

\* a thread: the line it stands at, the function it called, its local
\* `status`, the response its request got, its outcome and the status that
\* outcome was read from
IdleThread ==
  [pc |-> "idle", op |-> "none", status |-> NoStatus, response |-> NoResponse,
   outcome |-> NoOutcome, basis |-> NoStatus]

Init ==
  /\ \E raw \in RawFlags : DISABLE_LICENSE_CHECK = ParseDisableFlag(raw)
  /\ LICENSE_SERVER_URL \in ServerUrls
  /\ environ \in EnvKeys
  /\ cached_license = None
  /\ calls = 0
  /\ netCalls = 0
  /\ statusReturns = 0
  /\ firstOutcome = None
  /\ last = NoCall
  /\ main_pc = "enforce"
  /\ threads = [t \in Threads |-> IdleThread]

\* the answers the server may give to this call: one is drawn only when the
\* call reaches requests.get
Answers ==
  IF IsNone(cached_license)
     /\ ReachesNetwork(DISABLE_LICENSE_CHECK, LICENSE_SERVER_URL, environ)
  THEN Responses
  ELSE {[transport |-> "error", status_code |-> 0, body |-> EmptyBody]}

\* what a call of the enforcer leaves behind
Account(lic) ==
  /\ cached_license' = lic.cache
  /\ calls' = calls + 1
  /\ netCalls' = netCalls + (IF IsNone(lic.request) THEN 0 ELSE 1)
  /\ statusReturns' = statusReturns + (IF lic.verified THEN 1 ELSE 0)
  /\ firstOutcome' = IF IsNone(cached_license) /\ ~IsNone(lic.cache)
                     THEN Some(lic.outcome) ELSE firstOutcome
  /\ UNCHANGED <<config, threads>>

EnforceLicense ==
  /\ calls < MaxCalls
  /\ \E resp \in Answers :
       LET lic == enforce_license(cached_license, DISABLE_LICENSE_CHECK,
                                  LICENSE_SERVER_URL, environ, resp)
       IN  /\ Account(lic)
           /\ last' = Called("enforce_license", None, <<>>, None, lic, lic.outcome, None)
           /\ UNCHANGED main_pc

GetLicenseStatus ==
  /\ calls < MaxCalls
  /\ \E resp \in Answers :
       LET lic == get_license_status(cached_license, DISABLE_LICENSE_CHECK,
                                     LICENSE_SERVER_URL, environ, resp)
       IN  /\ Account(lic)
           /\ last' = Called("get_license_status", None, <<>>, None, lic, lic.outcome, None)
           /\ UNCHANGED main_pc

CallRequireLicense ==
  /\ calls < MaxCalls
  /\ \E resp \in Answers, plan \in GatePlans, args \in ArgsSet :
       LET g == require_license_wrapper(plan, args, cached_license,
                  DISABLE_LICENSE_CHECK, LICENSE_SERVER_URL, environ, resp)
       IN  /\ Account(g.lic)
           /\ last' = Called("require_license", plan, <<>>, Some(args), g.lic,
                             g.outcome, g.invoked)
           /\ UNCHANGED main_pc

CallRequireLicenseAny ==
  /\ calls < MaxCalls
  /\ \E resp \in Answers, plans \in GatePlanLists, args \in ArgsSet :
       LET g == require_license_any_wrapper(plans, args, cached_license,
                  DISABLE_LICENSE_CHECK, LICENSE_SERVER_URL, environ, resp)
       IN  /\ Account(g.lic)
           /\ last' = Called("require_license_any", None, plans, Some(args), g.lic,
                             g.outcome, g.invoked)
           /\ UNCHANGED main_pc

Next ==
  \/ EnforceLicense
  \/ GetLicenseStatus
  \/ CallRequireLicense
  \/ CallRequireLicenseAny

Spec == Init /\ [][Next]_vars

\* ---- core.py: the gated features ---------------------------------------
\* core.enterprise_feature's body
enterprise_feature_body(args) ==
  <<"[ENTERPRISE] Running advanced feature set for project '", args[1], "'">>

\* core.pro_feature: require_license("pro") around pro_feature's body
core_pro_feature(args, cache, disabled, base, env, resp) ==
  require_license_wrapper(Some("pro"), args, cache, disabled, base, env, resp)

\* core.enterprise_feature: require_license("enterprise") around its body
core_enterprise_feature(args, cache, disabled, base, env, resp) ==
  LET lic == get_license_status(cache, disabled, base, env, resp)
  IN  IF lic.outcome.kind = "raise" THEN Gated(lic, lic.outcome, None)
      ELSE LET gate == RequireLicenseGate(Some("enterprise"), Val(lic.outcome.status))
           IN  IF gate.kind = "raise" THEN Gated(lic, gate, None)
               ELSE Gated(lic, ReturnValue(enterprise_feature_body(args)), Some(args))

\* ---- _main_.py: main ----------------------------------------------------
\* where main goes after a guarded call: on, or out with the exception
AfterTry(outcome, caught, next, handled) ==
  IF outcome.kind = "return" THEN next
  ELSE IF outcome.exc = caught THEN handled
  ELSE "crashed"

\* lines 15-19: enforce_license(), SystemExit(1) on LicenseValidationError
MainEnforce ==
  /\ main_pc = "enforce"
  /\ \E resp \in Answers :
       LET lic == enforce_license(cached_license, DISABLE_LICENSE_CHECK,
                                  LICENSE_SERVER_URL, environ, resp)
       IN  /\ Account(lic)
           /\ last' = Called("enforce_license", None, <<>>, None, lic, lic.outcome, None)
           /\ main_pc' = AfterTry(lic.outcome, LVE, "pro", "exit1")

\* lines 28-31: core.pro_feature(3, 4), PermissionError caught
MainProFeature ==
  /\ main_pc = "pro"
  /\ \E resp \in Answers :
       LET g == core_pro_feature(<<3, 4>>, cached_license, DISABLE_LICENSE_CHECK,
                                 LICENSE_SERVER_URL, environ, resp)
       IN  /\ Account(g.lic)
           /\ last' = Called("require_license", Some("pro"), <<>>, Some(<<3, 4>>),
                             g.lic, g.outcome, g.invoked)
           /\ main_pc' = AfterTry(g.outcome, "PermissionError", "enterprise", "enterprise")

\* lines 33-36: core.enterprise_feature("Sentinel"), PermissionError caught
MainEnterpriseFeature ==
  /\ main_pc = "enterprise"
  /\ \E resp \in Answers :
       LET g == core_enterprise_feature(<<"Sentinel">>, cached_license,
                  DISABLE_LICENSE_CHECK, LICENSE_SERVER_URL, environ, resp)
       IN  /\ Account(g.lic)
           /\ last' = Called("require_license", Some("enterprise"), <<>>,
                             Some(<<"Sentinel">>), g.lic, g.outcome, g.invoked)
           /\ main_pc' = AfterTry(g.outcome, "PermissionError", "done", "done")

MainNext ==
  \/ MainEnforce
  \/ MainProFeature
  \/ MainEnterpriseFeature

\* the entry point run once
SpecMain == Init /\ [][MainNext]_vars

\* ---- threads calling the enforcer at once --------------------------------
\* Each step is one line of enforce_license / get_license_status as a thread
\* runs it: a thread can be preempted between any two reads or writes of the
\* global _cached_license, which no lock guards.

\* the answers the server gives to the threads' requests
ConcResponses ==
  {r \in Responses :
     \/ r.status_code # 200
     \/ /\ r.body.form = "dict"
        /\ r.body.fields.valid \in {Some(JBool(TRUE)), Some(JBool(FALSE))}
        /\ r.body.fields.reason = Some(JStr("expired"))
        /\ r.body.fields.plan \in {Some(JStr("pro")), Some(JStr("enterprise"))}}

ConcAnswers ==
  IF ReachesNetwork(DISABLE_LICENSE_CHECK, LICENSE_SERVER_URL, environ)
  THEN ConcResponses
  ELSE {[transport |-> "error", status_code |-> 0, body |-> EmptyBody]}

\* what a step of a thread leaves alone
ThreadFrame == UNCHANGED <<config, calls, firstOutcome, last, main_pc>>

\* thread t moves to line pc
Goto(t, pc) ==
  /\ threads' = [threads EXCEPT ![t].pc = pc]
  /\ UNCHANGED <<cached_license, netCalls, statusReturns>>
  /\ ThreadFrame

\* thread t leaves its call with an outcome read from the cache slot
Leave(t, outcome) ==
  /\ threads' = [threads EXCEPT ![t].pc = "done", ![t].outcome = outcome,
                                ![t].basis = cached_license]
  /\ UNCHANGED <<cached_license, netCalls, statusReturns>>
  /\ ThreadFrame

\* a thread calls enforce_license or get_license_status
T_Call(t) ==
  /\ threads[t].pc = "idle"
  /\ \E op \in {"enforce_license", "get_license_status"} :
       /\ threads' = [threads EXCEPT ![t].op = op,
                        ![t].pc = IF op = "enforce_license" THEN "L117" ELSE "L141"]
       /\ UNCHANGED <<cached_license, netCalls, statusReturns>>
       /\ ThreadFrame

\* get_license_status, line 141: if _cached_license is None (then line 143)
T_L141(t) ==
  /\ threads[t].pc = "L141"
  /\ Goto(t, IF IsNone(cached_license) THEN "L117" ELSE "L145")

\* line 145: if not _cached_license.valid
T_L145(t) ==
  /\ threads[t].pc = "L145"
  /\ Goto(t, IF ~Val(cached_license).valid THEN "L146" ELSE "L148")

\* line 146: raise, with _cached_license.reason
T_L146(t) ==
  /\ threads[t].pc = "L146"
  /\ Leave(t, InvalidLicense(Val(cached_license)))

\* line 148: return _cached_license
T_L148(t) ==
  /\ threads[t].pc = "L148"
  /\ Leave(t, Return(Val(cached_license)))

\* enforce_license, line 117: if _cached_license is not None
T_L117(t) ==
  /\ threads[t].pc = "L117"
  /\ Goto(t, IF ~IsNone(cached_license) THEN "L119" ELSE "L123")

\* line 119: if not _cached_license.valid
T_L119(t) ==
  /\ threads[t].pc = "L119"
  /\ Goto(t, IF ~Val(cached_license).valid THEN "L120" ELSE "L121")

\* line 120: raise, with _cached_license.reason
T_L120(t) ==
  /\ threads[t].pc = "L120"
  /\ Leave(t, InvalidLicense(Val(cached_license)))

\* line 121: return _cached_license
T_L121(t) ==
  /\ threads[t].pc = "L121"
  /\ Leave(t, Return(Val(cached_license)))

\* lines 123-124: the key, then the verifier and its request
T_L123(t) ==
  /\ threads[t].pc = "L123"
  /\ \E resp \in ConcAnswers :
       LET k == get_license_key_from_env(environ)
           v == verify_license_online(DISABLE_LICENSE_CHECK, LICENSE_SERVER_URL,
                                      k.key, resp)
       IN  IF ~k.ok
           THEN /\ threads' = [threads EXCEPT ![t].pc = "done", ![t].outcome = k.raised]
                /\ UNCHANGED <<netCalls, statusReturns>>
           ELSE /\ netCalls' = netCalls + (IF IsNone(v.request) THEN 0 ELSE 1)
                /\ IF v.outcome.kind = "raise"
                   THEN /\ threads' = [threads EXCEPT ![t].pc = "done",
                                         ![t].outcome = v.outcome,
                                         ![t].response = v.response]
                        /\ UNCHANGED statusReturns
                   ELSE /\ threads' = [threads EXCEPT ![t].pc = "L126",
                                         ![t].status = v.outcome.status,
                                         ![t].response = v.response]
                        /\ statusReturns' = statusReturns + 1
  /\ UNCHANGED cached_license
  /\ ThreadFrame

\* lines 126-131: the store, then the raise or return on the local status
T_L126(t) ==
  /\ threads[t].pc = "L126"
  /\ cached_license' = CacheAfterVerify(Val(threads[t].status))
  /\ threads' = [threads EXCEPT ![t].pc = "done",
                   ![t].outcome = AfterStore(Val(threads[t].status)),
                   ![t].basis = threads[t].status]
  /\ UNCHANGED <<netCalls, statusReturns>>
  /\ ThreadFrame

ConcNext ==
  \E t \in Threads :
    \/ T_Call(t)
    \/ T_L141(t)
    \/ T_L145(t)
    \/ T_L146(t)
    \/ T_L148(t)
    \/ T_L117(t)
    \/ T_L119(t)
    \/ T_L120(t)
    \/ T_L121(t)
    \/ T_L123(t)
    \/ T_L126(t)

\* threads making their first calls at once
SpecConc == Init /\ [][ConcNext]_vars

\* ---- properties ---------------------------------------------------------
\* the verifier received an answer it treats as a failure: no answer at all,
\* or a non-success response other than a 404
TransportOrServerFailure(c) ==
  /\ ~IsNone(c.response)
  /\ \/ Val(c.response).transport = "error"
     \/ Val(c.response).status_code # 404 /\ ~RespOk(Val(c.response))

\* the verifier received a success response whose body is no JSON object
MalformedBody(c) ==
  /\ ~IsNone(c.response)
  /\ Val(c.response).transport = "ok"
  /\ RespOk(Val(c.response))
  /\ Val(c.response).body.form # "dict"

\* the license key variable is unset or holds nothing but spaces
KeyBlank ==
  IsNone(environ) \/ \A i \in 1..Len(Val(environ)) : Val(environ)[i] = " "

\* C1: in a sequential run the verifier produces a status at most once, and
\* once it has, every later call is served from the cache: no request is sent
\* and the verifier returns nothing again.
C1_AtMostOneVerification ==
  /\ [](statusReturns <= 1)
  /\ [][statusReturns >= 1 =>
          /\ netCalls' = netCalls
          /\ statusReturns' = statusReturns
          /\ IsNone(last'.request)]_vars

\* C1 witness: the first call got a negative answer from the server and two
\* more calls followed without another request.
C1_Witness ==
  /\ calls = 3
  /\ netCalls = 1
  /\ statusReturns = 1
  /\ ~IsNone(cached_license)
  /\ ~Val(cached_license).valid

\* C2: when the server is unreachable or answers with a non-success, non-404
\* response, the call fails with LicenseValidationError and the cache slot
\* stays empty; the next call sends a fresh request instead of failing from
\* the cache.
C2_FailureNotCached ==
  /\ [](TransportOrServerFailure(last) =>
          /\ last.license.kind = "raise"
          /\ last.license.exc = LVE
          /\ last.outcome = last.license
          /\ IsNone(cached_license))
  /\ [][TransportOrServerFailure(last) =>
          /\ netCalls' = netCalls + 1
          /\ ~IsNone(last'.request)]_vars

\* C2 witness: a call failed on the server, and the call after it went to the
\* server again and failed there too.
C2_Witness ==
  /\ TransportOrServerFailure(last)
  /\ calls = 2
  /\ netCalls = 2
  /\ last.op \in {"enforce_license", "get_license_status"}

\* C3 (as claimed): with the dev-mode override on, enforce_license sends no
\* request and returns a valid status of plan "dev", whatever the server URL
\* and the license key are.
C3_DevModeAlwaysDev ==
  DISABLE_LICENSE_CHECK /\ last.op = "enforce_license" =>
    /\ IsNone(last.request)
    /\ last.outcome.kind = "return"
    /\ Val(last.outcome.status).valid
    /\ Val(last.outcome.status).plan = Some("dev")

\* C4 (as claimed): every failure of enforce_license that comes from the
\* verifier step is a LicenseValidationError: unreachable server, non-success
\* non-404 response, and a success response with a malformed body.
C4_VerifierFailuresAreLVE ==
  /\ last.op = "enforce_license"
  /\ TransportOrServerFailure(last) \/ MalformedBody(last)
  => last.outcome.kind = "raise" /\ last.outcome.exc = LVE

\* C5: once the cache slot holds a status, no call changes it or empties it.
C5_CacheTerminal ==
  [][~IsNone(cached_license) => cached_license' = cached_license]_vars

\* C5 witness: the first call populated the slot and two calls, the latest a
\* gated one, ran on it.
C5_Witness ==
  /\ calls = 3
  /\ netCalls = 1
  /\ statusReturns = 1
  /\ ~IsNone(cached_license)
  /\ last.op \in {"require_license", "require_license_any"}

\* C6: a 404 is a negative result: the status valid=false, "License not found"
\* is stored in the cache and the call fails with the invalid-license
\* LicenseValidationError; every other non-success response leaves the slot
\* empty.
C6_NotFoundIsCached ==
  /\ ~IsNone(last.response) /\ Val(last.response).transport = "ok"
       /\ Val(last.response).status_code = 404 =>
          /\ cached_license = Some(NotFoundStatus)
          /\ statusReturns = 1
          /\ last.license = Raise(LVE, <<"Invalid license: ", "License not found">>)
          /\ last.outcome = last.license
  /\ ~IsNone(last.response) /\ Val(last.response).transport = "ok"
       /\ Val(last.response).status_code # 404 /\ ~RespOk(Val(last.response)) =>
          /\ IsNone(cached_license)
          /\ last.license.kind = "raise"

\* C6 witness: the server answered 404 to enforce_license.
C6_Witness ==
  /\ last.op = "enforce_license"
  /\ ~IsNone(last.response)
  /\ Val(last.response).status_code = 404
  /\ cached_license = Some(NotFoundStatus)

\* C7: with an empty cache and a license key that is unset or blank,
\* enforce_license fails with "No license key found" before any request is
\* sent, and the slot stays empty.
C7_NoKeyFailsBeforeNetwork ==
  [][IsNone(cached_license) /\ KeyBlank /\ last'.op = "enforce_license" =>
       /\ last'.outcome = Raise(LVE, <<"No license key found. Set environment variable ",
                                       ENV_LICENSE_KEY, ".">>)
       /\ IsNone(last'.request)
       /\ netCalls' = netCalls
       /\ IsNone(cached_license')]_vars

\* C7 witness: enforce_license ran with a key made of one space.
C7_Witness ==
  /\ environ = Some(<<" ">>)
  /\ ~DISABLE_LICENSE_CHECK
  /\ LICENSE_SERVER_URL # <<>>
  /\ last.op = "enforce_license"
  /\ last.outcome.kind = "raise"
  /\ netCalls = 0

\* C8: once the cache is populated, every enforce_license or
\* get_license_status call has the outcome of the populating call: the cached
\* status itself when it is valid, the LicenseValidationError "Invalid
\* license: " + cached reason when it is not.
C8_Idempotent ==
  ~IsNone(cached_license) /\ last.op \in {"enforce_license", "get_license_status"} =>
    /\ ~IsNone(firstOutcome)
    /\ last.outcome = Val(firstOutcome)
    /\ last.outcome = IF Val(cached_license).valid
                      THEN Return(Val(cached_license))
                      ELSE Raise(LVE, <<"Invalid license: ", Val(cached_license).reason>>)

\* C8 witness: get_license_status ran on a cache that an earlier call had
\* populated with an invalid status.
C8_Witness ==
  /\ calls = 3
  /\ netCalls = 1
  /\ statusReturns = 1
  /\ last.op = "get_license_status"
  /\ ~IsNone(cached_license)
  /\ ~Val(cached_license).valid
  /\ Val(cached_license).reason = "expired"

\* C9: with a valid status, the wrapper of require_license(plan) invokes the
\* wrapped operation with the original arguments and returns its result when
\* plan is None or equals status.plan; otherwise (status.plan absent or
\* different) it fails with PermissionError and does not invoke it.
C9_RequireLicenseGate ==
  last.op = "require_license" /\ last.license.kind = "return" =>
    IF IsNone(last.plan) \/ Val(last.license.status).plan = last.plan
    THEN /\ last.invoked = last.args
         /\ last.outcome = ReturnValue(pro_feature_body(Val(last.args)))
    ELSE /\ IsNone(last.invoked)
         /\ last.outcome.kind = "raise"
         /\ last.outcome.exc = "PermissionError"

\* C9 witness: a gate for "enterprise" rejected a valid license of plan "pro".
C9_Witness ==
  /\ last.op = "require_license"
  /\ last.plan = Some("enterprise")
  /\ last.license.kind = "return"
  /\ Val(last.license.status).plan = Some("pro")
  /\ last.outcome.exc = "PermissionError"
  /\ IsNone(last.invoked)

\* C10 (as claimed): with a valid status, the wrapper of
\* require_license_any(plans) invokes the wrapped operation exactly when
\* status.plan is assigned and is a member of plans, and otherwise fails with
\* PermissionError without invoking it.
C10_RequireLicenseAnyGate ==
  last.op = "require_license_any" /\ last.license.kind = "return" =>
    IF /\ ~IsNone(Val(last.license.status).plan)
       /\ InList(Val(Val(last.license.status).plan), last.plans)
    THEN /\ last.invoked = last.args
         /\ last.outcome = ReturnValue(pro_feature_body(Val(last.args)))
    ELSE /\ IsNone(last.invoked)
         /\ last.outcome.kind = "raise"
         /\ last.outcome.exc = "PermissionError"

\* the latest call went through one of the two gates
GatedCall(c) == c.op \in {"require_license", "require_license_any"}

\* the latest call was rejected by a gate's plan check
Rejected(c) == GatedCall(c) /\ c.outcome.exc = "PermissionError"

\* C11 (as claimed): when licensing cannot be established for a gated call (the
\* enforcer inside it fails: no key, verifier failure, invalid license), the
\* gate fails with LicenseValidationError, never with PermissionError, and
\* does not invoke the wrapped operation; PermissionError is raised only on a
\* valid status.
C11_GateFailureKinds ==
  /\ GatedCall(last) /\ last.license.kind = "raise" =>
       /\ last.outcome.kind = "raise"
       /\ last.outcome.exc = LVE
       /\ IsNone(last.invoked)
  /\ Rejected(last) =>
       /\ last.license.kind = "return"
       /\ Val(last.license.status).valid

C15_AccessorsEquivalent ==
  \A resp \in Answers :
    LET e == enforce_license(cached_license, DISABLE_LICENSE_CHECK,
                             LICENSE_SERVER_URL, environ, resp)
        g == get_license_status(cached_license, DISABLE_LICENSE_CHECK,
                                LICENSE_SERVER_URL, environ, resp)
    IN  /\ e.outcome = g.outcome
        /\ e.request = g.request
        /\ e.cache = g.cache
        /\ ~IsNone(cached_license) => IsNone(e.request) /\ IsNone(g.request)

\* C15 witness: a populated cache holding an invalid status, on which both
\* accessors are compared.
C15_Witness ==
  /\ ~IsNone(cached_license)
  /\ ~Val(cached_license).valid
  /\ calls < MaxCalls

\* C16: the wrapper of require_license_any([]) rejects every call on a valid
\* license with PermissionError and never invokes the wrapped operation,
\* whether the status has a plan or not.
C16_EmptyPlansRejects ==
  /\ last.op = "require_license_any"
  /\ last.plans = <<>>
  /\ last.license.kind = "return"
  => /\ last.outcome.kind = "raise"
     /\ last.outcome.exc = "PermissionError"
     /\ IsNone(last.invoked)

\* C16 witness: require_license_any([]) rejected a valid license of plan "pro".
C16_Witness ==
  /\ last.op = "require_license_any"
  /\ last.plans = <<>>
  /\ last.license.kind = "return"
  /\ Val(last.license.status).plan = Some("pro")
  /\ last.outcome.exc = "PermissionError"

\* C17: enforce_license and get_license_status never return a status with
\* valid=false (a call returns a valid status or fails), and a wrapped
\* operation is executed only when the cache slot holds a valid status.
C17_OnlyValidReturned ==
  /\ ~IsNone(last.license.status) => Val(last.license.status).valid
  /\ last.op \in {"enforce_license", "get_license_status"}
       /\ last.outcome.kind = "return" =>
          /\ ~IsNone(last.outcome.status)
          /\ Val(last.outcome.status).valid
  /\ ~IsNone(last.invoked) =>
       /\ ~IsNone(cached_license)
       /\ Val(cached_license).valid

\* C17 witness: the server found the license invalid and enforce_license
\* failed instead of returning the status.
C17_Witness ==
  /\ last.op = "enforce_license"
  /\ ~IsNone(cached_license)
  /\ ~Val(cached_license).valid
  /\ Val(cached_license).reason = "expired"
  /\ last.outcome.kind = "raise"
  /\ ~IsNone(last.request)

\* C19 (as claimed): for every valid status and every required plan p (the
\* empty string included), the wrapper of require_license(p) invokes the
\* wrapped operation if and only if the wrapper of require_license_any([p])
\* does.
C19_GatesAgreeOnSinglePlan ==
  ~IsNone(cached_license) /\ Val(cached_license).valid =>
    \A p \in {"", "pro", "enterprise"}, args \in ArgsSet, resp \in Answers :
      IsNone(require_license_wrapper(Some(p), args, cached_license,
               DISABLE_LICENSE_CHECK, LICENSE_SERVER_URL, environ, resp).invoked)
      <=> IsNone(require_license_any_wrapper(<<p>>, args, cached_license,
               DISABLE_LICENSE_CHECK, LICENSE_SERVER_URL, environ, resp).invoked)

\* C18: once enforce_license has returned at startup, the gated calls that
\* follow send no request and fail, if they fail, with PermissionError only
\* (never LicenseValidationError, never an uncaught failure); so main, which
\* catches PermissionError alone, goes on from the first gated feature to the
\* second whether or not the first was blocked.
C18_GatedCallsAfterStartup ==
  /\ [][(main_pc \in {"pro", "enterprise"}) =>
          /\ netCalls' = netCalls
          /\ IsNone(last'.request)
          /\ last'.outcome.kind = "raise" => last'.outcome.exc = "PermissionError"
          /\ main_pc' # "crashed"]_vars
  /\ [][main_pc = "pro" => main_pc' = "enterprise"]_vars
  /\ [](main_pc \in {"pro", "enterprise", "done"} =>
          ~IsNone(cached_license) /\ Val(cached_license).valid)

\* C18 witness: main ran to its end on a license of plan "enterprise": the
\* first gated feature was blocked and the second ran.
C18_Witness ==
  /\ main_pc = "done"
  /\ netCalls = 1
  /\ Val(cached_license).plan = Some("enterprise")
  /\ last.invoked = Some(<<"Sentinel">>)
  /\ last.outcome = ReturnValue(enterprise_feature_body(<<"Sentinel">>))

\* every thread has left its call
AllDone == \A t \in Threads : threads[t].pc = "done"

\* no request of a thread failed on the way or at the server
NoRequestFailed == \A t \in Threads : ~TransportOrServerFailure(threads[t])

\* C13 (as claimed): when threads call enforce_license or get_license_status
\* at once on an empty cache, at most one request goes to the license server
\* in total (requests that failed, which are retried by design, set aside).
C13_SingleRequestUnderConcurrency ==
  NoRequestFailed => netCalls <= 1

\* C14 (as claimed): under every interleaving of concurrent first calls the
\* callers agree on the cached value: a stored status is never overwritten
\* with another one, and when all calls are over no caller has returned or
\* failed on a status other than the one the slot holds.
C14_CallersAgree ==
  /\ [][~IsNone(cached_license) => cached_license' = cached_license]_vars
  /\ [](AllDone =>
          \A t \in Threads :
            ~IsNone(threads[t].basis) => threads[t].basis = cached_license)

====
